---- MODULE Spec2Model ----
(***************************************************************************)
(* A model of the CodePipeline "S3 put" action (src/src/index.ts).         *)
(*                                                                         *)
(* JavaScript strings are sequences of one-character strings, Buffers are  *)
(* sequences of byte values, and the AWS clients (s3, codepipeline) are    *)
(* call logs plus the content of the object store.                         *)
(***************************************************************************)
EXTENDS Integers, Sequences, FiniteSets, TLC

VARIABLES
    job,                \* event["CodePipeline.job"] (NullJob: the null job of a direct call)
    s3Objects,          \* the object store's readable content: (Bucket, Key) -> zip archive
    catchSeesJob,       \* whether the build lets the catch block of handlerAsync see `job`
    call,               \* the exported function under call and its arguments
    pc,                 \* position of the invocation
    s3PutConfiguration, \* handlerAsync's local
    resolvedObjectKey,  \* handlerAsync's local
    err,                \* the error caught by handlerAsync's catch block
    rejection,          \* the error handlerAsync's promise rejects with
    ret,                \* what a directly called function returned or threw
    callbackArgs,       \* what handler() passed to the Lambda callback
    steps,              \* the steps handlerAsync has run, in order, each with its outcome
    locateLog,          \* artifact names passed to getS3LocationForInputArtifact
    s3Log,              \* s3.getObject and s3.putObject requests, in order
    reportLog           \* codepipeline.putJob*Result requests, in order

vars == <<job, s3Objects, catchSeesJob, call, pc, s3PutConfiguration,
          resolvedObjectKey, err, rejection, ret, callbackArgs, steps,
          locateLog, s3Log, reportLog>>

\* The largest number of input artifacts a job carries in the model.
MaxArtifacts == 2

-----------------------------------------------------------------------------
(* JavaScript values (what JSON.parse and property access produce).        *)

Undefined == [t |-> "undefined"]
JsNull    == [t |-> "null"]
Str(s)    == [t |-> "string", v |-> s]
Num(n)    == [t |-> "number", v |-> n]
Bool(b)   == [t |-> "boolean", v |-> b]
Obj(f)    == [t |-> "object", v |-> f]
\* A built-in function reached through the prototype chain.
Fn(name)  == [t |-> "function", v |-> name]

\* ToBoolean, as applied by `!value` and `if (x)`.
Truthy(x) ==
    CASE x.t = "undefined" -> FALSE
      [] x.t = "null"      -> FALSE
      [] x.t = "string"    -> x.v # <<>>
      [] x.t = "number"    -> x.v # 0
      [] x.t = "boolean"   -> x.v
      [] OTHER             -> TRUE

Digit(d) == <<"0", "1", "2", "3", "4", "5", "6", "7", "8", "9">>[d + 1]

RECURSIVE NatToString(_)
NatToString(n) ==
    IF n < 10 THEN <<Digit(n)>> ELSE NatToString(n \div 10) \o <<Digit(n % 10)>>

\* ToString of a non-callable value.
JsToString(x) ==
    CASE x.t = "string"    -> x.v
      [] x.t = "number"    -> NatToString(x.v)
      [] x.t = "boolean"   -> IF x.v THEN <<"t", "r", "u", "e">>
                                     ELSE <<"f", "a", "l", "s", "e">>
      [] x.t = "null"      -> <<"n", "u", "l", "l">>
      [] x.t = "undefined" -> <<"u", "n", "d", "e", "f", "i", "n", "e", "d">>
      [] OTHER             -> <<"[", "o", "b", "j", "e", "c", "t", " ",
                                "O", "b", "j", "e", "c", "t", "]">>

-----------------------------------------------------------------------------
(* String primitives.                                                      *)

\* The first index k >= i of s with s[k] in chars; Len(s) + 1 when there is none.
FirstIn(s, i, chars) ==
    LET hits == {k \in i..Len(s) : s[k] \in chars}
    IN  IF hits = {} THEN Len(s) + 1
        ELSE CHOOSE k \in hits : \A m \in hits : k <= m

\* Whether p occurs in s at index i.
OccursAt(s, p, i) ==
    /\ i >= 1
    /\ i + Len(p) - 1 <= Len(s)
    /\ SubSeq(s, i, i + Len(p) - 1) = p

\* String.prototype.indexOf, 1-based; 0 when p does not occur.
IndexOf(s, p) ==
    LET hits == {i \in 1..(Len(s) + 1) : OccursAt(s, p, i)}
    IN  IF hits = {} THEN 0
        ELSE CHOOSE i \in hits : \A m \in hits : i <= m

\* GetSubstitution for a string pattern (no captures): $$ is a dollar sign and
\* $& the matched text. (The two patterns that stand for the text around the
\* match need a quote character, which no string of the model contains.)
RECURSIVE GetSubstitution(_, _)
GetSubstitution(repl, matched) ==
    IF repl = <<>> THEN <<>>
    ELSE IF repl[1] = "$" /\ Len(repl) >= 2 /\ repl[2] \in {"$", "&"}
    THEN (IF repl[2] = "$" THEN <<"$">> ELSE matched)
         \o GetSubstitution(SubSeq(repl, 3, Len(repl)), matched)
    ELSE <<repl[1]>> \o GetSubstitution(Tail(repl), matched)

\* What a built-in constructor returns, as a string, when
\* String.prototype.replace calls it with (matched, offset, string):
\* Object(matched) and String(matched) give the text back, Number(matched) is
\* NaN for a text that starts with "$", Boolean(matched) is true.
CallReplacer(fn, matched) ==
    CASE fn.v = "Number"  -> <<"N", "a", "N">>
      [] fn.v = "Boolean" -> <<"t", "r", "u", "e">>
      [] OTHER            -> matched

\* String.prototype.replace(pattern: string, replaceValue): the first
\* occurrence of the pattern only.
StringReplace(s, pattern, replaceValue) ==
    LET pos    == IndexOf(s, pattern)
        before == SubSeq(s, 1, pos - 1)
        after  == SubSeq(s, pos + Len(pattern), Len(s))
        with   == IF replaceValue.t = "function"
                  THEN CallReplacer(replaceValue, pattern)
                  ELSE GetSubstitution(JsToString(replaceValue), pattern)
    IN  IF pos = 0 THEN s ELSE before \o with \o after

-----------------------------------------------------------------------------
(* Buffers, text and JSON.                                                 *)

\* The byte of each ASCII character the model's files are written with.
Ascii ==
    [c \in {"{", "}", "\"", ":", "$", "&", "0", "1", "2", "a", "e", "f", "k",
            "l", "n", "r", "s", "t", "u", "v"} |->
        CASE c = "{" -> 123 [] c = "}" -> 125 [] c = "\"" -> 34 [] c = ":" -> 58
          [] c = "$" -> 36  [] c = "&" -> 38  [] c = "0" -> 48  [] c = "1" -> 49
          [] c = "2" -> 50  [] c = "a" -> 97  [] c = "e" -> 101 [] c = "f" -> 102
          [] c = "k" -> 107 [] c = "l" -> 108 [] c = "n" -> 110 [] c = "r" -> 114
          [] c = "s" -> 115 [] c = "t" -> 116 [] c = "u" -> 117 [] OTHER -> 118]

\* Buffer.from(text): the bytes of an ASCII text.
BufferFrom(text) == [k \in 1..Len(text) |-> Ascii[text[k]]]

\* Buffer.toString('utf-8'): an ASCII byte is its character; the byte 0xFF is
\* never part of a UTF-8 sequence and decodes to U+FFFD.
BufferToString(buf) ==
    [k \in 1..Len(buf) |->
        IF \E c \in DOMAIN Ascii : Ascii[c] = buf[k]
        THEN CHOOSE c \in DOMAIN Ascii : Ascii[c] = buf[k]
        ELSE "U+FFFD"]

IsDigits(t) == t # <<>> /\ \A k \in 1..Len(t) : t[k] \in {"0", "1", "2"}

RECURSIVE DigitsToNat(_)
DigitsToNat(t) ==
    IF t = <<>> THEN 0
    ELSE 10 * DigitsToNat(SubSeq(t, 1, Len(t) - 1))
         + (CHOOSE d \in 0..9 : Digit(d) = t[Len(t)])

Returned(v) == [ok |-> TRUE, value |-> v]
Thrown(fmt, arg) == [ok |-> FALSE, error |-> [message |-> <<fmt, arg>>]]

\* JSON.parse of a value without whitespace: a string without escapes, a
\* number, true, false or null.
JSONParseValue(t) ==
    IF Len(t) >= 2 /\ t[1] = "\"" /\ t[Len(t)] = "\""
       /\ \A k \in 2..(Len(t) - 1) : t[k] # "\""
    THEN Returned(Str(SubSeq(t, 2, Len(t) - 1)))
    ELSE IF IsDigits(t) /\ (Len(t) = 1 \/ t[1] # "0")
    THEN Returned(Num(DigitsToNat(t)))
    ELSE IF t = <<"t", "r", "u", "e">> THEN Returned(Bool(TRUE))
    ELSE IF t = <<"f", "a", "l", "s", "e">> THEN Returned(Bool(FALSE))
    ELSE IF t = <<"n", "u", "l", "l">> THEN Returned(JsNull)
    ELSE Thrown("Unexpected token in JSON", t)

\* JSON.parse of a text without whitespace: a value, {} or {"key":value}.
JSONParse(text) ==
    LET q == FirstIn(text, 3, {"\""})   \* the quote closing the key
        member == JSONParseValue(SubSeq(text, q + 2, Len(text) - 1))
    IN  IF text = <<"{", "}">> THEN Returned(Obj(<<>>))
        ELSE IF Len(text) >= 2 /\ text[1] = "{" /\ text[2] = "\""
        THEN IF q + 1 <= Len(text) /\ text[q + 1] = ":"
                /\ text[Len(text)] = "}" /\ member.ok
             THEN Returned(Obj(SubSeq(text, 3, q - 1) :> member.value))
             ELSE Thrown("Unexpected token in JSON", text)
        ELSE JSONParseValue(text)

\* fileJson[jsonKey] for a non-null fileJson: an own property of an object,
\* else the "constructor" every value inherits from its prototype, else
\* undefined. (A string's own length and indices are not modelled.)
GetProperty(object, key) ==
    IF object.t = "object" /\ key \in DOMAIN object.v THEN object.v[key]
    ELSE IF key = <<"c", "o", "n", "s", "t", "r", "u", "c", "t", "o", "r">>
    THEN Fn(CASE object.t = "number"  -> "Number"
              [] object.t = "string"  -> "String"
              [] object.t = "boolean" -> "Boolean"
              [] OTHER                -> "Object")
    ELSE Undefined

-----------------------------------------------------------------------------
(* The functions of index.ts. Each returns Returned(value) or Thrown(..),  *)
(* together with the calls it made (artifact lookups, s3 requests).       *)

NullJob == [null |-> TRUE]

NoCalls == [locates |-> <<>>, s3 |-> <<>>]

\* A result r together with the calls c made on the way to it.
WithCalls(r, c) == [result |-> r, calls |-> c]

\* JSON.parse(UserParameters): the configuration object, or a SyntaxError for
\* a text that is not JSON.
getS3PutConfigurationFromJob(j) ==
    LET UserParameters == j.data.actionConfiguration.configuration.UserParameters
    IN  IF UserParameters.json = "object"
        THEN Returned([ObjectPath |-> UserParameters.ObjectPath,
                       BucketName |-> UserParameters.BucketName,
                       ObjectKey  |-> UserParameters.ObjectKey])
        ELSE Thrown("Unexpected token in JSON", <<>>)

\* Mutant of getS3LocationForInputArtifact: `artifact.name = artifactName`, an
\* assignment for the comparison, finds the first artifact whatever its name.
getS3LocationAssigningName(artifactName, j) ==
    IF j = NullJob
    THEN Thrown("Cannot read property 'data' of null", <<>>)
    ELSE IF j.data.inputArtifacts # <<>> /\ artifactName # <<>>
    THEN Returned(j.data.inputArtifacts[1].location.s3Location)
    ELSE Returned(JsNull)

\* inputArtifacts.find(artifact => artifact.name == artifactName): the first
\* artifact of that name; a null job has no .data to read.
getS3LocationForInputArtifact(artifactName, j) ==
    IF j = NullJob
    THEN Thrown("Cannot read property 'data' of null", <<>>)
    ELSE LET inputArtifacts == j.data.inputArtifacts
             found == {k \in 1..Len(inputArtifacts) :
                          inputArtifacts[k].name = artifactName}
         IN  IF found # {}
             THEN Returned(inputArtifacts[CHOOSE k \in found :
                               \A m \in found : k <= m].location.s3Location)
             ELSE Returned(JsNull)

\* s3.getObject, JSZip.loadAsync, zip.file(filename), file.async('nodebuffer'):
\* the outcome, and the request sent to the store.
getBodyFromZippedS3Object(bucketName, key, filename) ==
    LET params == [Bucket |-> bucketName, Key |-> key]
        request == [op |-> "getObject", Bucket |-> bucketName, Key |-> key]
    IN  IF params \notin DOMAIN s3Objects
        THEN [result |-> Thrown("The specified key does not exist.", <<>>),
              request |-> request]
        ELSE IF filename \notin DOMAIN s3Objects[params]
        THEN [result |-> Thrown("Unable to get file from artifact object. File '%s' was not found.",
                                filename),
              request |-> request]
        ELSE [result |-> Returned(s3Objects[params][filename]),
              request |-> request]

NoMatch == [matched |-> FALSE]

\* objectKey.match(/\${([^:]+)::([^}:]+)(::([^}]+))?}/) tried at index i:
\* "${", a longest run without ":", "::", a longest run without "}" and ":",
\* then either "::" and a longest run without "}", or nothing, and "}".
ObjectKeyMatchAt(s, i) ==
    LET c == FirstIn(s, i + 2, {":"})
        e == FirstIn(s, c + 2, {"}", ":"})
        g == FirstIn(s, e + 2, {"}"})
        head == /\ i + 1 <= Len(s) /\ s[i] = "$" /\ s[i + 1] = "{"
                /\ c > i + 2 /\ c + 1 <= Len(s) /\ s[c] = ":" /\ s[c + 1] = ":"
                /\ e > c + 2 /\ e <= Len(s)
        withKey == /\ head
                   /\ e + 1 <= Len(s) /\ s[e] = ":" /\ s[e + 1] = ":"
                   /\ g > e + 2 /\ g <= Len(s)
    IN  IF withKey
        THEN [matched |-> TRUE, index |-> i, m0 |-> SubSeq(s, i, g),
              m1 |-> Str(SubSeq(s, i + 2, c - 1)),
              m2 |-> Str(SubSeq(s, c + 2, e - 1)),
              m4 |-> Str(SubSeq(s, e + 2, g - 1))]
        ELSE IF head /\ s[e] = "}"
        THEN [matched |-> TRUE, index |-> i, m0 |-> SubSeq(s, i, e),
              m1 |-> Str(SubSeq(s, i + 2, c - 1)),
              m2 |-> Str(SubSeq(s, c + 2, e - 1)),
              m4 |-> Undefined]
        ELSE NoMatch

\* String.prototype.match with a regular expression without the g flag: the
\* leftmost match.
ObjectKeyMatch(s) ==
    LET starts == {i \in 1..Len(s) : ObjectKeyMatchAt(s, i).matched}
    IN  IF starts = {} THEN NoMatch
        ELSE ObjectKeyMatchAt(s, CHOOSE i \in starts : \A m \in starts : i <= m)

\* Lines 81-88: the JSON field of the file, substituted for the placeholder.
ResolveJsonKey(objectKey, matches, fileJson, calls) ==
    IF ~fileJson.ok THEN WithCalls(fileJson, calls)
    ELSE IF fileJson.value.t = "null"
    THEN WithCalls(Thrown("Cannot read property '%s' of null", matches.m4.v), calls)
    ELSE IF ~Truthy(GetProperty(fileJson.value, matches.m4.v))
    THEN WithCalls(Thrown("Invalid resource for key '%s", objectKey), calls)
    ELSE WithCalls(Returned(StringReplace(objectKey, matches.m0,
                                          GetProperty(fileJson.value, matches.m4.v))),
                   calls)

\* Lines 72-79: the fetched file, returned as text when there is no jsonKey.
ResolveFileBody(objectKey, matches, fetch, calls) ==
    IF ~fetch.result.ok
    THEN WithCalls(fetch.result, [calls EXCEPT !.s3 = <<fetch.request>>])
    ELSE IF ~Truthy(matches.m4)
    THEN WithCalls(Returned(BufferToString(fetch.result.value)),
                   [calls EXCEPT !.s3 = <<fetch.request>>])
    ELSE ResolveJsonKey(objectKey, matches,
                        JSONParse(BufferToString(fetch.result.value)),
                        [calls EXCEPT !.s3 = <<fetch.request>>])

\* Lines 67-72: the artifact's location, and the fetch from it.
ResolveS3Location(objectKey, matches, s3Location, calls) ==
    IF ~s3Location.ok THEN WithCalls(s3Location, calls)
    ELSE IF s3Location.value = JsNull
    THEN WithCalls(Thrown("Invalid resource for key '%s'", objectKey), calls)
    ELSE ResolveFileBody(objectKey, matches,
             getBodyFromZippedS3Object(s3Location.value.bucketName,
                                       s3Location.value.objectKey, matches.m2.v),
             calls)

\* Lines 61-67 and 90: artifactName is matches[1], fileName matches[2] and
\* jsonKey matches[4].
ResolveMatches(objectKey, j, matches) ==
    IF ~matches.matched THEN WithCalls(Returned(objectKey), NoCalls)
    ELSE ResolveS3Location(objectKey, matches,
             getS3LocationForInputArtifact(matches.m1.v, j),
             [NoCalls EXCEPT !.locates = <<matches.m1.v>>])

resolveObjectKey(objectKey, j) ==
    ResolveMatches(objectKey, j, ObjectKeyMatch(objectKey))

\* objectPath.match(/^([^:]+)::(.+)$/): from the start, a longest run without
\* ":", "::", and a non-empty rest up to the end without a line terminator.
ObjectPathMatch(s) ==
    LET c == FirstIn(s, 1, {":"})
    IN  IF /\ c > 1 /\ c + 2 <= Len(s) /\ s[c] = ":" /\ s[c + 1] = ":"
           /\ \A k \in (c + 2)..Len(s) : s[k] # "\n"
        THEN [matched |-> TRUE, m1 |-> SubSeq(s, 1, c - 1),
              m2 |-> SubSeq(s, c + 2, Len(s))]
        ELSE NoMatch

RECURSIVE Utf8Reencode(_)
\* Buffer.from(buf.toString('utf-8')): a byte that is not ASCII comes back as
\* the three bytes of U+FFFD.
Utf8Reencode(buf) ==
    IF buf = <<>> THEN <<>>
    ELSE (IF buf[1] < 128 THEN <<buf[1]>> ELSE <<239, 191, 189>>)
         \o Utf8Reencode(Tail(buf))

\* Mutant of PutObject: the body goes through text, Body: fileBody.toString().
PutObjectAsText(fileBody, destinationBucketName, destinationObjectKey) ==
    [op |-> "putObject", Body |-> Utf8Reencode(fileBody),
     Bucket |-> destinationBucketName, Key |-> destinationObjectKey]

\* s3.putObject(putParams), lines 131-137.
PutObject(fileBody, destinationBucketName, destinationObjectKey) ==
    [op |-> "putObject", Body |-> fileBody, Bucket |-> destinationBucketName,
     Key |-> destinationObjectKey]

\* Lines 126-137: the fetched file, put at the destination. putOk: whether
\* s3.putObject succeeds.
CopyFileBody(objectPath, destinationBucketName, destinationObjectKey, fetch, calls, putOk) ==
    IF ~fetch.result.ok
    THEN WithCalls(fetch.result, [calls EXCEPT !.s3 = <<fetch.request>>])
    ELSE WithCalls(IF putOk THEN Returned(Undefined)
                   ELSE Thrown("s3.putObject failed", <<>>),
                   [calls EXCEPT !.s3 =
                       <<fetch.request,
                         PutObject(fetch.result.value, destinationBucketName,
                                   destinationObjectKey)>>])

\* Lines 121-126: the artifact's location, and the fetch from it.
CopyS3Location(objectPath, destinationBucketName, destinationObjectKey, matches, s3Location, calls, putOk) ==
    IF ~s3Location.ok THEN WithCalls(s3Location, calls)
    ELSE IF s3Location.value = JsNull
    THEN WithCalls(Thrown("Invalid resource for key '%s", objectPath), calls)
    ELSE CopyFileBody(objectPath, destinationBucketName, destinationObjectKey,
             getBodyFromZippedS3Object(s3Location.value.bucketName,
                                       s3Location.value.objectKey, matches.m2),
             calls, putOk)

\* Lines 113-121: artifactName is matches[1] and fileName matches[2].
CopyMatches(objectPath, destinationBucketName, destinationObjectKey, j, matches, putOk) ==
    IF ~matches.matched
    THEN WithCalls(Thrown("Unable to resolve resource artifact location from '%s'",
                          objectPath), NoCalls)
    ELSE CopyS3Location(objectPath, destinationBucketName, destinationObjectKey,
             matches, getS3LocationForInputArtifact(matches.m1, j),
             [NoCalls EXCEPT !.locates = <<matches.m1>>], putOk)

copyArtifactResourceToS3(objectPath, destinationBucketName, destinationObjectKey, j, putOk) ==
    CopyMatches(objectPath, destinationBucketName, destinationObjectKey, j,
                ObjectPathMatch(objectPath), putOk)

-----------------------------------------------------------------------------
(* The inputs: jobs, the object store, object keys and object paths.       *)

ArtifactNames == {<<"A">>, <<"B">>}

S3Location(objectKey) == [bucketName |-> "inputBucket", objectKey |-> objectKey]

InputArtifacts ==
    {[name |-> n, location |-> [s3Location |-> S3Location(k)]] :
        n \in ArtifactNames, k \in {"a.zip", "b.zip"}}

ArtifactLists == UNION {[1..n -> InputArtifacts] : n \in 0..MaxArtifacts}

Job(userParameters, inputArtifacts) ==
    [jobId |-> "job-1",
     data  |-> [actionConfiguration |->
                    [configuration |-> [UserParameters |-> userParameters]],
                inputArtifacts |-> inputArtifacts]]

\* The file "f" of a.zip is one of these.
FileTexts ==
    {<<"{", "\"", "v", "\"", ":", "\"", "1", "\"", "}">>,
     <<"{", "\"", "v", "\"", ":", "\"", "$", "&", "\"", "}">>,
     <<"{", "\"", "v", "\"", ":", "\"", "\"", "}">>,
     <<"{", "\"", "v", "\"", ":", "0", "}">>,
     <<"{", "\"", "v", "\"", ":", "2", "}">>,
     <<"{", "\"", "v", "\"", ":", "f", "a", "l", "s", "e", "}">>,
     <<"{", "\"", "v", "\"", ":", "n", "u", "l", "l", "}">>,
     <<"{", "}">>,
     <<"k", "1">>}

FileBodies == {BufferFrom(t) : t \in FileTexts} \cup {<<255>>}

\* a.zip holds "f"; b.zip, when it exists, holds another "f" and "g:h".
Store(fileBody, withB) ==
    LET a == [Bucket |-> "inputBucket", Key |-> "a.zip"]
        b == [Bucket |-> "inputBucket", Key |-> "b.zip"]
        inB == (<<"f">> :> BufferFrom(<<"2">>))
               @@ (<<"g", ":", "h">> :> BufferFrom(<<"k">>))
               @@ (<<"g">> :> <<>>)
    IN  IF withB THEN (a :> (<<"f">> :> fileBody)) @@ (b :> inB)
        ELSE (a :> (<<"f">> :> fileBody))

Stores ==
    {Store(body, TRUE) : body \in FileBodies}
    \cup {Store(BufferFrom(<<"{", "}">>), FALSE)}

Concat3(a, b, c) == a \o b \o c

\* Object keys with one well-formed placeholder, between a prefix and a suffix.
PlaceholderKeys ==
    {Concat3(pre,
             <<"$", "{">> \o art \o <<":", ":">> \o file \o field \o <<"}">>,
             post) :
        pre   \in {<<>>, <<"x", "-">>, <<"$", "{", "x", "}">>},
        art   \in ArtifactNames,
        file  \in {<<"f">>, <<"g">>},
        field \in {<<>>, <<":", ":", "v">>, <<":", ":", "w">>,
                   <<":", ":", "c", "o", "n", "s", "t", "r", "u", "c", "t", "o", "r">>},
        post  \in {<<>>, <<".", "y">>}}

\* Object keys without a placeholder, with a malformed one, or with two.
OtherKeys ==
    {<<"k", ".", "y">>,
     <<>>,
     <<"$", "{", "A", ":", "f", "}">>,
     <<"{", "A", ":", ":", "f", "}">>,
     <<"$", "{", ":", ":", "f", "}">>,
     <<"$", "{", "A", ":", ":", "}">>,
     <<"$", "{", "A", ":", ":", "f">>,
     <<"$", "{", "A", ":", ":", "f", ":", ":", "}">>,
     <<"$", "{", "A", ":", ":", "f", ":", "v", "}">>,
     <<"$", "{", "A", ":", ":", "f", ":", ":", "v">>,
     <<"$", "{", "a", "}", "b", ":", ":", "f", "}">>,
     <<"$", "{", "A", ":", ":", "f", ":", ":", "v", "}", "-",
       "$", "{", "A", ":", ":", "f", ":", ":", "v", "}">>,
     <<"$", "{", "A", ":", ":", "f", "}", "$", "{", "B", ":", ":", "f", "}">>}

ObjectKeys == PlaceholderKeys \cup OtherKeys

ObjectPaths ==
    {<<"A", ":", ":", "f">>,
     <<"B", ":", ":", "f">>,
     <<"A", ":", ":", "g">>,
     <<"B", ":", ":", "g", ":", "h">>,
     <<"B", ":", ":", "g">>,
     <<"A">>,
     <<"A", ":", "f">>,
     <<":", ":", "f">>,
     <<"A", ":", ":">>,
     <<"A", ":", "B", ":", ":", "f">>,
     <<>>}

DestinationKeys == {<<"d", ".", "y">>, <<>>}

\* UserParameters: a JSON text of a configuration object, or a text that is
\* not JSON.
HandlerUserParameters ==
    {[json |-> "malformed"]}
    \cup {[json |-> "object", ObjectPath |-> path, BucketName |-> "MyBucket",
           ObjectKey |-> key] :
            path \in {<<"A", ":", ":", "f">>, <<"B", ":", ":", "g">>, <<"A">>},
            key  \in {<<"k", ".", "y">>,
                      <<"x", "-", "$", "{", "A", ":", ":", "f", ":", ":", "v", "}">>,
                      <<"$", "{", "B", ":", ":", "f", "}">>}}

HandlerStores ==
    {Store(BufferFrom(<<"{", "\"", "v", "\"", ":", "\"", "1", "\"", "}">>), TRUE),
     Store(BufferFrom(<<"{", "\"", "v", "\"", ":", "0", "}">>), TRUE),
     Store(BufferFrom(<<"{", "}">>), FALSE)}

-----------------------------------------------------------------------------
(* The state machine.                                                      *)

InitCommon ==
    /\ s3PutConfiguration = Undefined
    /\ resolvedObjectKey = Undefined
    /\ err = Undefined
    /\ rejection = Undefined
    /\ ret = Undefined
    /\ callbackArgs = Undefined
    /\ steps = <<>>
    /\ locateLog = <<>>
    /\ s3Log = <<>>
    /\ reportLog = <<>>

\* The calls a function made reach the clients' logs.
Log(calls) ==
    /\ locateLog' = locateLog \o calls.locates
    /\ s3Log' = s3Log \o calls.s3

(* A direct call of resolveObjectKey(objectKey, job).                      *)

InitResolve ==
    /\ InitCommon
    /\ s3Objects \in Stores
    /\ catchSeesJob = FALSE
    /\ job \in {NullJob} \cup {Job([json |-> "malformed"], l) : l \in ArtifactLists}
    /\ call \in {[fn |-> "resolveObjectKey", objectKey |-> k] : k \in ObjectKeys}
    /\ pc = "call"

CallResolveObjectKey ==
    /\ pc = "call"
    /\ call.fn = "resolveObjectKey"
    /\ LET r == resolveObjectKey(call.objectKey, job)
       IN  /\ ret' = r.result
           /\ Log(r.calls)
    /\ pc' = "done"
    /\ UNCHANGED <<job, s3Objects, catchSeesJob, call, s3PutConfiguration,
                   resolvedObjectKey, err, rejection, callbackArgs, steps,
                   reportLog>>

NextResolve == CallResolveObjectKey

SpecResolve == InitResolve /\ [][NextResolve]_vars

(* A direct call of copyArtifactResourceToS3(objectPath, bucket, key, job). *)

InitCopy ==
    /\ InitCommon
    /\ s3Objects \in Stores
    /\ catchSeesJob = FALSE
    /\ job \in {Job([json |-> "malformed"], l) : l \in ArtifactLists}
    /\ call \in {[fn |-> "copyArtifactResourceToS3", objectPath |-> path,
                  destinationBucketName |-> "destination-bucket",
                  destinationObjectKey |-> key] :
                    path \in ObjectPaths, key \in DestinationKeys}
    /\ pc = "call"

CallCopyArtifactResourceToS3 ==
    /\ pc = "call"
    /\ call.fn = "copyArtifactResourceToS3"
    /\ \E putOk \in BOOLEAN :
        LET r == copyArtifactResourceToS3(call.objectPath, call.destinationBucketName,
                                          call.destinationObjectKey, job, putOk)
        IN  /\ ret' = r.result
            /\ Log(r.calls)
    /\ pc' = "done"
    /\ UNCHANGED <<job, s3Objects, catchSeesJob, call, s3PutConfiguration,
                   resolvedObjectKey, err, rejection, callbackArgs, steps,
                   reportLog>>

NextCopy == CallCopyArtifactResourceToS3

SpecCopy == InitCopy /\ [][NextCopy]_vars

(* One invocation of handler(event, context, callback).                    *)

awsRequestId == "request-1"

Init ==
    /\ InitCommon
    /\ s3Objects \in HandlerStores
    /\ catchSeesJob \in BOOLEAN
    /\ job \in {Job(u, l) : u \in HandlerUserParameters, l \in ArtifactLists}
    /\ call = [fn |-> "handler"]
    /\ pc = "getS3PutConfigurationFromJob"

Step(name, ok) == [step |-> name, ok |-> ok]

\* Line 26.
ReadConfiguration ==
    /\ pc = "getS3PutConfigurationFromJob"
    /\ LET r == getS3PutConfigurationFromJob(job)
       IN  /\ steps' = Append(steps, Step("getS3PutConfigurationFromJob", r.ok))
           /\ IF r.ok
              THEN /\ s3PutConfiguration' = r.value
                   /\ pc' = "resolveObjectKey"
                   /\ UNCHANGED err
              ELSE /\ err' = r.error
                   /\ pc' = "catch"
                   /\ UNCHANGED s3PutConfiguration
    /\ UNCHANGED <<job, s3Objects, catchSeesJob, call, resolvedObjectKey,
                   rejection, ret, callbackArgs, locateLog, s3Log,
                   reportLog>>

\* Line 27.
ResolveObjectKey ==
    /\ pc = "resolveObjectKey"
    /\ LET r == resolveObjectKey(s3PutConfiguration.ObjectKey, job)
       IN  /\ steps' = Append(steps, Step("resolveObjectKey", r.result.ok))
           /\ Log(r.calls)
           /\ IF r.result.ok
              THEN /\ resolvedObjectKey' = r.result.value
                   /\ pc' = "copyArtifactResourceToS3"
                   /\ UNCHANGED err
              ELSE /\ err' = r.result.error
                   /\ pc' = "catch"
                   /\ UNCHANGED resolvedObjectKey
    /\ UNCHANGED <<job, s3Objects, catchSeesJob, call, s3PutConfiguration,
                   rejection, ret, callbackArgs, reportLog>>

\* Mutant of CopyArtifactResource: the copy is given the configured ObjectKey,
\* not the resolved one.
CopyArtifactResourceUnresolvedKey ==
    /\ pc = "copyArtifactResourceToS3"
    /\ \E putOk \in BOOLEAN :
        LET r == copyArtifactResourceToS3(s3PutConfiguration.ObjectPath,
                                          s3PutConfiguration.BucketName,
                                          s3PutConfiguration.ObjectKey, job, putOk)
        IN  /\ steps' = Append(steps, Step("copyArtifactResourceToS3", r.result.ok))
            /\ Log(r.calls)
            /\ IF r.result.ok
               THEN /\ pc' = "putJobSuccessResult"
                    /\ UNCHANGED err
               ELSE /\ err' = r.result.error
                    /\ pc' = "catch"
    /\ UNCHANGED <<job, s3Objects, catchSeesJob, call, s3PutConfiguration,
                   resolvedObjectKey, rejection, ret, callbackArgs, reportLog>>

\* Line 29.
CopyArtifactResource ==
    /\ pc = "copyArtifactResourceToS3"
    /\ \E putOk \in BOOLEAN :
        LET r == copyArtifactResourceToS3(s3PutConfiguration.ObjectPath,
                                          s3PutConfiguration.BucketName,
                                          resolvedObjectKey, job, putOk)
        IN  /\ steps' = Append(steps, Step("copyArtifactResourceToS3", r.result.ok))
            /\ Log(r.calls)
            /\ IF r.result.ok
               THEN /\ pc' = "putJobSuccessResult"
                    /\ UNCHANGED err
               ELSE /\ err' = r.result.error
                    /\ pc' = "catch"
    /\ UNCHANGED <<job, s3Objects, catchSeesJob, call, s3PutConfiguration,
                   resolvedObjectKey, rejection, ret, callbackArgs, reportLog>>

\* Lines 30-32, inside the try block: a rejected request is caught at line 34.
PutJobSuccessResult ==
    /\ pc = "putJobSuccessResult"
    /\ reportLog' = Append(reportLog, [op |-> "putJobSuccessResult",
                                       jobId |-> job.jobId])
    /\ \E reportOk \in BOOLEAN :
        /\ steps' = Append(steps, Step("putJobSuccessResult", reportOk))
        /\ IF reportOk
           THEN /\ pc' = "resolved"
                /\ UNCHANGED err
           ELSE /\ err' = [message |-> <<"putJobSuccessResult failed", <<>>>>]
                /\ pc' = "catch"
    /\ UNCHANGED <<job, s3Objects, catchSeesJob, call, s3PutConfiguration,
                   resolvedObjectKey, rejection, ret, callbackArgs, locateLog, s3Log>>

\* Mutant of PutJobFailureResult: a rejected failure report is swallowed (a
\* .catch(() => {}) on the request), and handlerAsync resolves.
PutJobFailureResultSwallowed ==
    /\ pc = "catch"
    /\ IF catchSeesJob
       THEN /\ reportLog' = Append(reportLog,
                [op |-> "putJobFailureResult", jobId |-> job.jobId,
                 failureDetails |-> [type |-> "JobFailed",
                                     message |-> err.message,
                                     externalExecutionId |-> awsRequestId]])
            /\ \E reportOk \in BOOLEAN :
                steps' = Append(steps, Step("putJobFailureResult", reportOk))
            /\ pc' = "resolved"
            /\ UNCHANGED rejection
       ELSE /\ rejection' = [message |-> <<"job is not defined", <<>>>>]
            /\ pc' = "rejected"
            /\ UNCHANGED <<reportLog, steps>>
    /\ UNCHANGED <<job, s3Objects, catchSeesJob, call, s3PutConfiguration,
                   resolvedObjectKey, err, ret, callbackArgs, locateLog, s3Log>>

\* Lines 34-44. `job` is a const of the try block (line 25): where the build
\* keeps block scope, reading it in the catch block is a ReferenceError, and
\* where the build hoists it to the function, the failure is reported.
PutJobFailureResult ==
    /\ pc = "catch"
    /\ IF catchSeesJob
       THEN /\ reportLog' = Append(reportLog,
                [op |-> "putJobFailureResult", jobId |-> job.jobId,
                 failureDetails |-> [type |-> "JobFailed",
                                     message |-> err.message,
                                     externalExecutionId |-> awsRequestId]])
            /\ \E reportOk \in BOOLEAN :
                /\ steps' = Append(steps, Step("putJobFailureResult", reportOk))
                /\ IF reportOk
                   THEN /\ pc' = "resolved"
                        /\ UNCHANGED rejection
                   ELSE /\ rejection' = [message |-> <<"putJobFailureResult failed", <<>>>>]
                        /\ pc' = "rejected"
       ELSE /\ rejection' = [message |-> <<"job is not defined", <<>>>>]
            /\ pc' = "rejected"
            /\ UNCHANGED <<reportLog, steps>>
    /\ UNCHANGED <<job, s3Objects, catchSeesJob, call, s3PutConfiguration,
                   resolvedObjectKey, err, ret, callbackArgs, locateLog, s3Log>>

\* Lines 15-16: handlerAsync resolved (with undefined).
CallbackResult ==
    /\ pc = "resolved"
    /\ callbackArgs' = [err |-> Undefined, res |-> Undefined]
    /\ pc' = "done"
    /\ UNCHANGED <<job, s3Objects, catchSeesJob, call, s3PutConfiguration,
                   resolvedObjectKey, err, rejection, ret, steps, locateLog, s3Log,
                   reportLog>>

\* Lines 17-19: handlerAsync rejected.
CallbackError ==
    /\ pc = "rejected"
    /\ callbackArgs' = [err |-> rejection, res |-> Undefined]
    /\ pc' = "done"
    /\ UNCHANGED <<job, s3Objects, catchSeesJob, call, s3PutConfiguration,
                   resolvedObjectKey, err, rejection, ret, steps, locateLog, s3Log,
                   reportLog>>

Next ==
    \/ ReadConfiguration
    \/ ResolveObjectKey
    \/ CopyArtifactResource
    \/ PutJobSuccessResult
    \/ PutJobFailureResult
    \/ CallbackResult
    \/ CallbackError

Spec == Init /\ [][Next]_vars

-----------------------------------------------------------------------------
(* Properties of one invocation of the handler (Spec).                     *)

Failed(name) == \E k \in 1..Len(steps) : steps[k] = Step(name, FALSE)

Ran(name) == \E k \in 1..Len(steps) : steps[k].step = name

PutRequests == SelectSeq(s3Log, LAMBDA r : r.op = "putObject")

SuccessReports == SelectSeq(reportLog, LAMBDA r : r.op = "putJobSuccessResult")

FailureReports == SelectSeq(reportLog, LAMBDA r : r.op = "putJobFailureResult")

WorkSteps ==
    {"getS3PutConfigurationFromJob", "resolveObjectKey", "copyArtifactResourceToS3"}

\* C1 (as stated): when reading the configuration, resolveObjectKey or
\* copyArtifactResourceToS3 fails, no later step of the invocation runs, no put
\* follows a failed resolve, no success report is sent, and exactly one failure
\* report is sent, keyed by the job's jobId and carrying the message of the
\* error that failed the step.
C1_FailureIsReportedOnce ==
    (pc = "done" /\ \E name \in WorkSteps : Failed(name)) =>
        /\ \A k \in 1..Len(steps) :
              (steps[k].step \in WorkSteps /\ ~steps[k].ok) =>
                  \A m \in (k + 1)..Len(steps) : steps[m].step = "putJobFailureResult"
        /\ Failed("resolveObjectKey") => PutRequests = <<>>
        /\ SuccessReports = <<>>
        /\ Len(reportLog) = 1
        /\ reportLog[1].op = "putJobFailureResult"
        /\ reportLog[1].jobId = job.jobId
        /\ reportLog[1].failureDetails.message = err.message

\* C2: the steps run in the order read configuration, resolveObjectKey,
\* copyArtifactResourceToS3, report; the success report, keyed by the job's
\* jobId, is sent only after the three of them succeeded and the put was
\* issued; the put is addressed to BucketName and the key resolveObjectKey
\* returned; and an invocation issues at most one put.
C2_StepsInOrder ==
    /\ \A k \in 1..Len(steps) :
          /\ steps[k].step = "getS3PutConfigurationFromJob" => k = 1
          /\ steps[k].step = "resolveObjectKey" =>
                k = 2 /\ steps[1] = Step("getS3PutConfigurationFromJob", TRUE)
          /\ steps[k].step = "copyArtifactResourceToS3" =>
                k = 3 /\ steps[2] = Step("resolveObjectKey", TRUE)
          /\ steps[k].step = "putJobSuccessResult" =>
                /\ k = 4
                /\ steps[3] = Step("copyArtifactResourceToS3", TRUE)
                /\ Len(PutRequests) = 1
    /\ \A k \in 1..Len(SuccessReports) :
          /\ Ran("putJobSuccessResult")
          /\ SuccessReports[k].jobId = job.jobId
    /\ Len(SuccessReports) <= 1
    /\ Len(PutRequests) <= 1
    /\ \A k \in 1..Len(PutRequests) :
          /\ Ran("copyArtifactResourceToS3")
          /\ PutRequests[k].Bucket = s3PutConfiguration.BucketName
          /\ PutRequests[k].Key = resolvedObjectKey
          /\ steps[2] = Step("resolveObjectKey", TRUE)

\* A finished invocation that resolved a placeholder in ObjectKey, put the
\* file and reported success.
C2_Witness ==
    /\ pc = "done"
    /\ Len(SuccessReports) = 1
    /\ Len(PutRequests) = 1
    /\ Len(steps) = 4
    /\ ObjectKeyMatch(s3PutConfiguration.ObjectKey).matched
    /\ PutRequests[1].Key # s3PutConfiguration.ObjectKey

ReportFailed ==
    Failed("putJobSuccessResult") \/ Failed("putJobFailureResult")

\* C3 (as stated): when a reporting call fails, the success signal or the
\* failure signal, the failure is not handled: the handler's callback receives
\* the error of that call, and no other reporting call is made in its place.
\* (Stated of the invocations whose catch block can read `job`, so that what
\* refutes it is the try block around the success signal alone.)
C3_ReportFailurePropagates ==
    (pc = "done" /\ ReportFailed /\ catchSeesJob) =>
        /\ Len(reportLog) = 1
        /\ callbackArgs.err =
              [message |-> <<IF Failed("putJobSuccessResult")
                             THEN "putJobSuccessResult failed"
                             ELSE "putJobFailureResult failed", <<>>>>]

\* C3 (amended): a failed failure signal is not handled: the callback receives
\* its error and it is the last reporting call. A failed success signal is
\* handled: the catch block of handlerAsync catches it, the callback does not
\* receive its error, and the only reporting call that can follow it is one
\* failure signal, which carries the message of the success signal's error.
C3_OnlyFailureReportPropagates ==
    /\ Failed("putJobFailureResult") =>
          /\ steps[Len(steps)] = Step("putJobFailureResult", FALSE)
          /\ reportLog[Len(reportLog)].op = "putJobFailureResult"
          /\ Len(FailureReports) = 1
          /\ pc \in {"rejected", "done"}
          /\ rejection = [message |-> <<"putJobFailureResult failed", <<>>>>]
          /\ pc = "done" => callbackArgs.err = rejection
    /\ Failed("putJobSuccessResult") =>
          /\ steps[4] = Step("putJobSuccessResult", FALSE)
          /\ err = [message |-> <<"putJobSuccessResult failed", <<>>>>]
          /\ pc \in {"catch", "resolved", "rejected", "done"}
          /\ Len(SuccessReports) = 1
          /\ Len(reportLog) <= 2
          /\ Len(reportLog) = 2 =>
                /\ reportLog[2].op = "putJobFailureResult"
                /\ reportLog[2].jobId = job.jobId
                /\ reportLog[2].failureDetails.message = err.message
          /\ pc = "done" => callbackArgs.err # err

\* A finished invocation whose success signal failed and whose failure
\* signal, sent in its place, failed too.
C3_Witness ==
    /\ pc = "done"
    /\ Failed("putJobSuccessResult")
    /\ Failed("putJobFailureResult")
    /\ Len(reportLog) = 2
    /\ callbackArgs.err = rejection

-----------------------------------------------------------------------------
(* The placeholder grammar of the specification:                           *)
(*   ${<artifactName>::<fileName>(::<fieldName>)?}                         *)
(* with artifactName and fileName free of ":" and "}", and fieldName free  *)
(* of "}".                                                                 *)

GrammarPlaceholderAt(s, i) ==
    LET c == FirstIn(s, i + 2, {":", "}"})
        e == FirstIn(s, c + 2, {":", "}"})
        g == FirstIn(s, e + 2, {"}"})
    IN  IF /\ i + 1 <= Len(s) /\ s[i] = "$" /\ s[i + 1] = "{"
           /\ c > i + 2 /\ c + 1 <= Len(s) /\ s[c] = ":" /\ s[c + 1] = ":"
           /\ e > c + 2 /\ e <= Len(s)
        THEN IF s[e] = "}"
             THEN [matched |-> TRUE, first |-> i, last |-> e,
                   artifactName |-> SubSeq(s, i + 2, c - 1),
                   fileName |-> SubSeq(s, c + 2, e - 1),
                   hasField |-> FALSE, fieldName |-> <<>>]
             ELSE IF /\ e + 1 <= Len(s) /\ s[e + 1] = ":"
                     /\ g > e + 2 /\ g <= Len(s)
             THEN [matched |-> TRUE, first |-> i, last |-> g,
                   artifactName |-> SubSeq(s, i + 2, c - 1),
                   fileName |-> SubSeq(s, c + 2, e - 1),
                   hasField |-> TRUE, fieldName |-> SubSeq(s, e + 2, g - 1)]
             ELSE NoMatch
        ELSE NoMatch

\* The first placeholder of s, if it has one.
GrammarPlaceholder(s) ==
    LET starts == {i \in 1..Len(s) : GrammarPlaceholderAt(s, i).matched}
    IN  IF starts = {} THEN NoMatch
        ELSE GrammarPlaceholderAt(s, CHOOSE i \in starts : \A m \in starts : i <= m)

\* The first placeholder of the object key under call.
Placeholder == GrammarPlaceholder(call.objectKey)

TextBefore == SubSeq(call.objectKey, 1, Placeholder.first - 1)

TextAfter == SubSeq(call.objectKey, Placeholder.last + 1, Len(call.objectKey))

Resolved == pc = "done" /\ call.fn = "resolveObjectKey"

\* The store objects of the job's artifacts called name (one by the lookup
\* rule: the first of that name).
ArtifactObject(name) ==
    LET l == getS3LocationForInputArtifact(name, job).value
    IN  [Bucket |-> l.bucketName, Key |-> l.objectKey]

ArtifactOnJob(name) ==
    /\ job # NullJob
    /\ \E k \in 1..Len(job.data.inputArtifacts) : job.data.inputArtifacts[k].name = name

ArchiveFetched(name) == ArtifactOnJob(name) /\ ArtifactObject(name) \in DOMAIN s3Objects

FileInArchive(name, file) ==
    ArchiveFetched(name) /\ file \in DOMAIN s3Objects[ArtifactObject(name)]

ArchiveFile(name, file) == s3Objects[ArtifactObject(name)][file]

\* C10 (as stated): the placeholder resolveObjectKey recognises is the first
\* placeholder of the grammar, so the artifact name it looks up contains no
\* "}" and its match does not span a "}" that closes earlier.
C10_MatchIsGrammarPlaceholder ==
    Resolved =>
        /\ ObjectKeyMatch(call.objectKey).matched = Placeholder.matched
        /\ Placeholder.matched =>
              /\ ObjectKeyMatch(call.objectKey).index = Placeholder.first
              /\ ObjectKeyMatch(call.objectKey).m0
                    = SubSeq(call.objectKey, Placeholder.first, Placeholder.last)
              /\ locateLog = <<Placeholder.artifactName>>
        /\ \A k \in 1..Len(locateLog) :
              \A i \in 1..Len(locateLog[k]) : locateLog[k][i] # "}"

\* The regular expression of resolveObjectKey matched the first placeholder
\* of the grammar.
MatchIsPlaceholder ==
    /\ Placeholder.matched
    /\ ObjectKeyMatch(call.objectKey).matched
    /\ ObjectKeyMatch(call.objectKey).m0
          = SubSeq(call.objectKey, Placeholder.first, Placeholder.last)
    /\ ObjectKeyMatch(call.objectKey).index = Placeholder.first

\* C6 (as stated): an object key without a placeholder of the grammar is
\* returned unchanged, whatever the job (a null job too), with no failure
\* and no fetch from the store.
C6_NoPlaceholderIsIdentity ==
    (Resolved /\ ~Placeholder.matched) =>
        /\ ret = Returned(call.objectKey)
        /\ s3Log = <<>>

\* C4 (as stated): when the first placeholder has no fieldName, its artifact
\* is on the job and its file in the archive, resolveObjectKey returns the
\* object key with the placeholder replaced by the file decoded as UTF-8, the
\* text before and after the placeholder kept. (Stated of the object keys in
\* which the regular expression matches that placeholder, so that what refutes
\* it is the value returned and not the match of C10.)
C4_FileTextReplacesPlaceholder ==
    (/\ Resolved
     /\ MatchIsPlaceholder
     /\ ~Placeholder.hasField
     /\ FileInArchive(Placeholder.artifactName, Placeholder.fileName)) =>
        ret = Returned(TextBefore
                       \o BufferToString(ArchiveFile(Placeholder.artifactName,
                                                     Placeholder.fileName))
                       \o TextAfter)

\* The JSON document of the first placeholder's file.
PlaceholderJson ==
    JSONParse(BufferToString(ArchiveFile(Placeholder.artifactName,
                                         Placeholder.fileName)))

\* The document is an object and has the placeholder's field as a key.
PlaceholderJsonHasField ==
    /\ PlaceholderJson.ok
    /\ PlaceholderJson.value.t = "object"
    /\ Placeholder.fieldName \in DOMAIN PlaceholderJson.value.v

\* C5 (as stated): when the first placeholder has a fieldName, its artifact
\* is on the job, its file in the archive and the field's value is truthy,
\* resolveObjectKey returns the object key with that placeholder replaced by
\* the string form of the value, all other text left as it is. (Stated of the
\* object keys in which the regular expression matches that placeholder, so
\* that what refutes it is the substitution and not the match of C10.)
C5_FieldValueReplacesPlaceholder ==
    (/\ Resolved
     /\ MatchIsPlaceholder
     /\ Placeholder.hasField
     /\ FileInArchive(Placeholder.artifactName, Placeholder.fileName)
     /\ PlaceholderJsonHasField
     /\ Truthy(PlaceholderJson.value.v[Placeholder.fieldName])) =>
        ret = Returned(TextBefore
                       \o JsToString(PlaceholderJson.value.v[Placeholder.fieldName])
                       \o TextAfter)

\* C7 (as stated): for an object key with a placeholder, resolveObjectKey
\* fails when the placeholder's artifact is not on the job (and then fetches
\* nothing), when the file is not in the fetched archive, and when a fieldName
\* is given and the decoded JSON has no such key or a falsy value under it.
\* (Stated of the object keys in which the regular expression matches that
\* placeholder.)
C7_UnresolvablePlaceholderFails ==
    (Resolved /\ MatchIsPlaceholder /\ job # NullJob) =>
        /\ ~ArtifactOnJob(Placeholder.artifactName) => (~ret.ok /\ s3Log = <<>>)
        /\ (/\ ArchiveFetched(Placeholder.artifactName)
            /\ ~FileInArchive(Placeholder.artifactName, Placeholder.fileName)) => ~ret.ok
        /\ (/\ FileInArchive(Placeholder.artifactName, Placeholder.fileName)
            /\ Placeholder.hasField
            /\ PlaceholderJson.ok
            /\ \/ ~PlaceholderJsonHasField
               \/ ~Truthy(PlaceholderJson.value.v[Placeholder.fieldName])) => ~ret.ok

-----------------------------------------------------------------------------
(* Properties of a direct call of copyArtifactResourceToS3 (SpecCopy).     *)

Copied == pc = "done" /\ call.fn = "copyArtifactResourceToS3"

\* An object path read as <artifact>::<file>: the index of its first "::"
\* (0 without one), what precedes it and what follows it.
PathSeparator == IndexOf(call.objectPath, <<":", ":">>)

PathArtifact == SubSeq(call.objectPath, 1, PathSeparator - 1)

PathFile == SubSeq(call.objectPath, PathSeparator + 2, Len(call.objectPath))

\* C8: for a path artifact::file whose artifact is on the job and whose file
\* is in the artifact's archive, copyArtifactResourceToS3 fetches the archive
\* from the artifact's own location and then issues exactly one put, to the
\* destination bucket and key, whose body is the file's bytes.
C8_CopyPutsFileBytes ==
    (/\ Copied
     /\ PathSeparator > 1
     /\ PathFile # <<>>
     /\ FileInArchive(PathArtifact, PathFile)) =>
        s3Log = <<[op |-> "getObject",
                   Bucket |-> ArtifactObject(PathArtifact).Bucket,
                   Key |-> ArtifactObject(PathArtifact).Key],
                  [op |-> "putObject",
                   Body |-> ArchiveFile(PathArtifact, PathFile),
                   Bucket |-> call.destinationBucketName,
                   Key |-> call.destinationObjectKey]>>

\* A finished copy of a file that is not ASCII text, from the archive of the
\* job's second artifact, stored elsewhere than the first.
C8_Witness ==
    /\ Copied
    /\ ret.ok
    /\ Len(s3Log) = 2
    /\ Len(job.data.inputArtifacts) = 2
    /\ job.data.inputArtifacts[1].name # PathArtifact
    /\ job.data.inputArtifacts[1].location # job.data.inputArtifacts[2].location
    /\ \E k \in 1..Len(s3Log[2].Body) : s3Log[2].Body[k] > 127

NoPut == \A k \in 1..Len(s3Log) : s3Log[k].op # "putObject"

\* C9: copyArtifactResourceToS3 fails and issues no put when the path has no
\* "::" or nothing before it (an invalid reference: no fetch either), when the
\* artifact is not on the job, and when the file is not in the fetched archive.
C9_InvalidCopyPutsNothing ==
    Copied =>
        /\ PathSeparator \in {0, 1} =>
              /\ ret = Thrown("Unable to resolve resource artifact location from '%s'",
                              call.objectPath)
              /\ s3Log = <<>>
        /\ (PathSeparator > 1 /\ ~ArtifactOnJob(PathArtifact)) =>
              (~ret.ok /\ NoPut)
        /\ (/\ PathSeparator > 1
            /\ ArchiveFetched(PathArtifact)
            /\ ~FileInArchive(PathArtifact, PathFile)) =>
              (~ret.ok /\ NoPut)

\* A failed copy of a file that is not in the archive fetched for it.
C9_Witness ==
    /\ Copied
    /\ PathSeparator > 1
    /\ PathFile # <<>>
    /\ ArchiveFetched(PathArtifact)
    /\ ~FileInArchive(PathArtifact, PathFile)
    /\ Len(s3Log) = 1
    /\ ~ret.ok

====
